---- MODULE Spec2Model ----
(***************************************************************************)
(* Model of the artifact-ingestion pipeline of parsing/crawler/crawler.py: *)
(* the URL normalizer, the content classifier, the key deriver, the        *)
(* artifact store (_save_artifact, _safe_write_atomic) and the run         *)
(* orchestrator (run_crawler).                                             *)
(*                                                                         *)
(* Strings that the code takes apart are sequences of one-character        *)
(* strings; strings it only compares are TLA+ strings.  A URL is the       *)
(* record [scheme, netloc, rest] standing for scheme://netloc + rest.      *)
(* A byte payload is a sequence of tokens, each token a run of bytes of    *)
(* known length (TokenLen).                                                *)
(***************************************************************************)
EXTENDS Integers, Sequences, FiniteSets, TLC

(***************************************************************************)
(* Sequence helpers                                                        *)
(***************************************************************************)
Range(s) == {s[i] : i \in 1..Len(s)}

\* F applied to the value of x.  TLC evaluates the argument of an operator
\* each time the operator uses it when it evaluates ENABLED; here x is
\* evaluated once
ByValue(F(_), x) == CHOOSE r \in {F(v) : v \in {x}} : TRUE

\* str.find(c, from): least index >= from holding c, 0 when there is none
Find(s, c, from) ==
  IF \E i \in from..Len(s) : s[i] = c
  THEN CHOOSE i \in from..Len(s) : s[i] = c /\ \A j \in from..(i-1) : s[j] # c
  ELSE 0

\* str.rfind(c): greatest index holding c, 0 when there is none
RFind(s, c) ==
  IF \E i \in 1..Len(s) : s[i] = c
  THEN CHOOSE i \in 1..Len(s) : s[i] = c /\ \A j \in (i+1)..Len(s) : s[j] # c
  ELSE 0

Before(s, i) == SubSeq(s, 1, i - 1)
After(s, i) == SubSeq(s, i + 1, Len(s))

\* str.split(sep): the pieces of s between occurrences of sep
RECURSIVE Split(_, _)
Split(s, sep) ==
  ByValue(LAMBDA v : LET i == Find(v, sep, 1)
                     IN IF i = 0 THEN <<v>> ELSE <<Before(v, i)>> \o Split(After(v, i), sep),
          s)

\* sep.join(pieces)
RECURSIVE Join(_, _)
Join(pieces, sep) ==
  ByValue(LAMBDA v : IF v = <<>> THEN <<>>
                     ELSE IF Len(v) = 1 THEN v[1]
                     ELSE v[1] \o <<sep>> \o Join(Tail(v), sep),
          pieces)

(***************************************************************************)
(* urllib.parse: percent-encoding                                          *)
(***************************************************************************)
\* the characters of the model with their ASCII code as two hex digits
Ascii ==
  { <<" ", "2", "0">>, <<"#", "2", "3">>, <<"%", "2", "5">>, <<"&", "2", "6">>,
    <<"+", "2", "B">>, <<"/", "2", "F">>, <<"0", "3", "0">>, <<"2", "3", "2">>,
    <<"5", "3", "5">>, <<";", "3", "B">>, <<"=", "3", "D">>, <<"?", "3", "F">>,
    <<"a", "6", "1">>, <<"b", "6", "2">>, <<"e", "6", "5">>, <<"t", "7", "4">>,
    <<"x", "7", "8">>, <<"B", "4", "2">>, <<"D", "4", "4">>, <<"F", "4", "6">>,
    <<"P", "5", "0">>, <<"R", "5", "2">>, <<"U", "5", "5">>, <<"\"", "2", "2">>,
    <<"3", "3", "3">>, <<"6", "3", "6">>, <<"7", "3", "7">>, <<"4", "3", "4">>,
    <<"8", "3", "8">>, <<"1", "3", "1">>, <<"f", "6", "6">>, <<"d", "6", "4">> }

HexDigits == {"0", "1", "2", "3", "4", "5", "6", "7", "8", "B", "D", "F", "b", "d", "f"}

HexUpper(h) == IF h = "b" THEN "B" ELSE IF h = "d" THEN "D" ELSE IF h = "f" THEN "F" ELSE h

\* '%XX' for a character
PercentEncode(c) == LET e == CHOOSE e \in Ascii : e[1] = c IN <<"%", e[2], e[3]>>

\* the character of a two-digit hex code (undefined outside the table)
HexDecode(h1, h2) ==
  (CHOOSE e \in Ascii : e[2] = HexUpper(h1) /\ e[3] = HexUpper(h2))[1]

\* urllib.parse._ALWAYS_SAFE restricted to the characters of the model
AlwaysSafe == {"0", "1", "2", "3", "4", "5", "6", "7", "8", "a", "b", "d", "e", "f", "t", "x",
               "B", "D", "F", "P", "R", "U"}

\* urllib.parse.quote(s, safe): every character outside _ALWAYS_SAFE and safe
\* becomes its percent escape ('%' itself included)
RECURSIVE quote(_, _)
quote(s, safe) ==
  ByValue(LAMBDA v : IF v = <<>> THEN <<>>
                     ELSE (IF Head(v) \in AlwaysSafe \cup safe THEN <<Head(v)>>
                           ELSE PercentEncode(Head(v)))
                          \o quote(Tail(v), safe),
          s)

\* urllib.parse.quote_plus(s): a space becomes '+', the rest as quote(s, safe='')
RECURSIVE quote_plus(_)
quote_plus(s) ==
  ByValue(LAMBDA v : IF v = <<>> THEN <<>>
                     ELSE (IF Head(v) = " " THEN <<"+">> ELSE quote(<<Head(v)>>, {}))
                          \o quote_plus(Tail(v)),
          s)

\* urllib.parse.unquote(s): '%' followed by two hex digits is decoded, any other
\* '%' stays
RECURSIVE unquote(_)
unquote(s) ==
  ByValue(LAMBDA v :
            IF v = <<>> THEN <<>>
            ELSE IF Head(v) = "%" /\ Len(v) >= 3 /\ v[2] \in HexDigits /\ v[3] \in HexDigits
                 THEN <<HexDecode(v[2], v[3])>> \o unquote(SubSeq(v, 4, Len(v)))
                 ELSE <<Head(v)>> \o unquote(Tail(v)),
          s)

\* qs.replace('+', ' ')
RECURSIVE PlusToSpace(_)
PlusToSpace(s) ==
  ByValue(LAMBDA v : IF v = <<>> THEN <<>>
                     ELSE <<IF Head(v) = "+" THEN " " ELSE Head(v)>> \o PlusToSpace(Tail(v)),
          s)

\* urllib.parse.parse_qsl(qs) with keep_blank_values=False: split at '&', drop
\* the fields without '=' and the fields with an empty value, decode the rest
RECURSIVE QslFields(_)
QslFields(fields) ==
  ByValue(LAMBDA v :
            IF v = <<>> THEN <<>>
            ELSE LET f == Head(v)
                     i == Find(f, "=", 1)
                 IN (IF i = 0 \/ After(f, i) = <<>> THEN <<>>
                     ELSE << <<unquote(PlusToSpace(Before(f, i))),
                               unquote(PlusToSpace(After(f, i)))>> >>)
                    \o QslFields(Tail(v)),
          fields)

\* variant: the fields are split and not decoded
ParseQslUndecoded(qs) ==
  IF qs = <<>> THEN <<>>
  ELSE LET fields == Split(qs, "&")
       IN [k \in 1..Len(fields) |->
             <<Before(fields[k], Find(fields[k], "=", 1)), After(fields[k], Find(fields[k], "=", 1))>>]

parse_qsl(qs) == ByValue(LAMBDA v : IF v = <<>> THEN <<>> ELSE QslFields(Split(v, "&")), qs)

\* urllib.parse.urlencode(pairs, doseq=True): quote_plus(k) '=' quote_plus(v)
\* joined by '&'
urlencode(pairs) ==
  ByValue(LAMBDA v : Join([i \in 1..Len(v) |-> quote_plus(v[i][1]) \o <<"=">> \o quote_plus(v[i][2])],
                          "&"),
          pairs)

(***************************************************************************)
(* urllib.parse: urlparse / urlunparse                                     *)
(***************************************************************************)
SchemeLower(s) == IF s = "HTTPS" THEN "https" ELSE IF s = "HTTP" THEN "http" ELSE s

\* urllib.parse._splitparams: the parameters of the last path segment
SplitParams(p) ==
  ByValue(LAMBDA v : LET slash == RFind(v, "/")
                         i == Find(v, ";", IF slash = 0 THEN 1 ELSE slash)
                     IN IF i = 0 THEN [path |-> v, params |-> <<>>]
                        ELSE [path |-> Before(v, i), params |-> After(v, i)],
          p)

\* urllib.parse.urlparse: the fragment is cut at the first '#', the query at the
\* first '?' before it, the parameters at the first ';' of the last segment
urlparse(url) ==
  ByValue(LAMBDA u :
    ByValue(LAMBDA nofrag :
      ByValue(LAMBDA sp :
                [scheme |-> SchemeLower(u.scheme), netloc |-> u.netloc,
                 path |-> sp.path, params |-> sp.params,
                 query |-> IF Find(nofrag, "?", 1) = 0 THEN <<>>
                           ELSE After(nofrag, Find(nofrag, "?", 1)),
                 fragment |-> IF Find(u.rest, "#", 1) = 0 THEN <<>>
                              ELSE After(u.rest, Find(u.rest, "#", 1))],
              SplitParams(IF Find(nofrag, "?", 1) = 0 THEN nofrag
                          ELSE Before(nofrag, Find(nofrag, "?", 1)))),
      IF Find(u.rest, "#", 1) = 0 THEN u.rest ELSE Before(u.rest, Find(u.rest, "#", 1))),
    url)

\* urllib.parse.urlunparse: empty parameters, query and fragment are left out
\* together with their separator
urlunparse(p) ==
  ByValue(LAMBDA v :
            [scheme |-> v.scheme, netloc |-> v.netloc,
             rest |-> (IF v.path # <<>> /\ Head(v.path) # "/" THEN <<"/">> ELSE <<>>) \o v.path
                      \o (IF v.params = <<>> THEN <<>> ELSE <<";">> \o v.params)
                      \o (IF v.query = <<>> THEN <<>> ELSE <<"?">> \o v.query)
                      \o (IF v.fragment = <<>> THEN <<>> ELSE <<"#">> \o v.fragment)],
          p)

_normalize_url(url) ==
  ByValue(LAMBDA parsed :
            urlunparse([scheme |-> parsed.scheme, netloc |-> parsed.netloc,
                        path |-> quote(parsed.path, {"/"}), params |-> parsed.params,
                        query |-> urlencode(parse_qsl(parsed.query)),
                        fragment |-> parsed.fragment]),
          urlparse(url))

(***************************************************************************)
(* Content classifier                                                      *)
(***************************************************************************)
\* A MIME string is a sequence of tokens: a media type, ";", " " or a parameter.
\* bytes.lower() / str.lower() on the tokens of the model
Lower(tok) ==
  CASE tok = "Text/HTML" -> "text/html"
    [] tok = "TEXT/PLAIN" -> "text/plain"
    [] tok = "Image/PNG" -> "image/png"
    [] tok = "Application/XHTML+XML" -> "application/xhtml+xml"
    [] tok = "APPLICATION/PDF" -> "application/pdf"
    [] tok = "IMAGE/JPEG" -> "image/jpeg"
    [] tok = "Image/WebP" -> "image/webp"
    [] tok = "Application/ZIP" -> "application/zip"
    [] tok = "<!DOCTYPE html" -> "<!doctype html"
    [] tok = "<HTML" -> "<html"
    [] OTHER -> tok

LowerAll(s) == ByValue(LAMBDA v : [i \in 1..Len(v) |-> Lower(v[i])], s)

Whitespace == {" ", "\n"}

\* str.lstrip() / bytes.lstrip()
RECURSIVE lstrip(_)
lstrip(s) ==
  ByValue(LAMBDA v : IF v # <<>> /\ Head(v) \in Whitespace THEN lstrip(Tail(v)) ELSE v, s)

\* str.rstrip()
RECURSIVE rstrip(_)
rstrip(s) ==
  ByValue(LAMBDA v : IF v # <<>> /\ v[Len(v)] \in Whitespace THEN rstrip(SubSeq(v, 1, Len(v) - 1))
                     ELSE v,
          s)

\* (mime_type or "").split(";")[0].strip().lower(); None stands for a missing value
None == <<"None">>

\* variant: the type is compared as it is written, without lower()
MimeEssenceCaseSensitive(mime_type) ==
  ByValue(LAMBDA m : rstrip(lstrip(Split(m, ";")[1])),
          IF mime_type = None THEN <<>> ELSE mime_type)

MimeEssence(mime_type) ==
  ByValue(LAMBDA m : LowerAll(rstrip(lstrip(Split(m, ";")[1]))),
          IF mime_type = None THEN <<>> ELSE mime_type)

HtmlFamily == {<<"text/html">>, <<"application/xhtml+xml">>}

_derive_type_and_ext(mime_type) ==
  ByValue(LAMBDA mime :
            IF mime \in HtmlFamily THEN <<"html", "html">>
            ELSE IF mime = <<"text/plain">> THEN <<"text", "txt">>
            ELSE IF mime = <<"application/pdf">> THEN <<"pdf", "pdf">>
            ELSE IF mime = <<"image/png">> THEN <<"png", "png">>
            ELSE IF mime = <<"image/jpeg">> THEN <<"jpg", "jpg">>
            ELSE IF mime = <<"image/webp">> THEN <<"webp", "webp">>
            ELSE <<"html", "html">>,
          MimeEssence(mime_type))

\* number of bytes a payload token stands for
TokenLen(tok) ==
  CASE tok \in {"<!DOCTYPE html", "<!doctype html"} -> 14
    [] tok \in {"<html", "<HTML"} -> 5
    [] tok = "pad507" -> 507
    [] OTHER -> 1

SniffLen == 512

\* data[:n] on tokens: the tokens that lie wholly inside the first n bytes; a
\* token cut by the slice leaves a fragment that is no signature
RECURSIVE Slice(_, _)
Slice(data, n) ==
  ByValue(LAMBDA v : IF v[1] = <<>> \/ v[2] <= 0 THEN <<>>
                     ELSE IF TokenLen(Head(v[1])) <= v[2]
                          THEN <<Head(v[1])>> \o Slice(Tail(v[1]), v[2] - TokenLen(Head(v[1])))
                          ELSE <<"cut">>,
          <<data, n>>)

_looks_like_html(data) ==
  ByValue(LAMBDA trimmed :
            \/ (trimmed # <<>> /\ trimmed[1] = "<!doctype html")
            \/ (trimmed # <<>> /\ trimmed[1] = "<html")
            \/ "<html" \in Range(trimmed),
          LowerAll(Slice(lstrip(data), SniffLen)))

(***************************************************************************)
(* Hashes.  A digest is modelled by its tagged preimage: distinct inputs   *)
(* have distinct digests.                                                  *)
(***************************************************************************)
_sha256_bytes(data) == <<"sha256", data>>

\* sha1("{source_type}:{source_id}")[:16]
_build_doc_key(source_type, source_id) == <<"sha1_16", source_type, ":", source_id>>

(***************************************************************************)
(* JSON.  The text of a manifest file is a sequence of tokens: an opening  *)
(* brace, one <<key, value>> member per field, a closing brace.            *)
(***************************************************************************)
ManifestKeys == <<"type", "version", "runId", "source", "rawPath", "checksum", "createdAt">>

\* json.dumps(manifest, ensure_ascii=False, indent=2).encode("utf-8")
json_dumps(m) ==
  ByValue(LAMBDA v : << <<"{">> >> \o [i \in 1..Len(ManifestKeys) |-> <<ManifestKeys[i], v[ManifestKeys[i]]>>]
                     \o << <<"}">> >>,
          m)

\* json.loads(text): a dict for a well-formed object, another value for other
\* well-formed JSON, an error for anything else
json_loads(text) ==
  ByValue(LAMBDA v :
    LET members == 2..(Len(v) - 1)
    IN IF Len(v) >= 2 /\ v[1] = <<"{">> /\ v[Len(v)] = <<"}">>
          /\ (\A i \in members : Len(v[i]) = 2)
       THEN [kind |-> "dict",
             val |-> [k \in {v[i][1] : i \in members} |->
                        v[CHOOSE i \in members :
                            v[i][1] = k /\ \A j \in members : v[j][1] = k => j <= i][2]]]
       ELSE IF v = << <<"[">>, <<"]">> >>
       THEN [kind |-> "list", val |-> <<>>]
       ELSE [kind |-> "error", val |-> <<>>],
    text)

(***************************************************************************)
(* Bounds and inputs of the model                                          *)
(***************************************************************************)
MaxCalls == 2       \* direct calls of _save_artifact
MaxTime == 1        \* readings of the clock range over 0..MaxTime
MaxFetch == 2       \* file URLs handed out by the producers during a run
MaxFail == 1        \* file-system errors raised inside _safe_write_atomic
MaxCrash == 1       \* process crashes
WriteChunks == 2    \* pieces in which write_bytes may put the data on disk

Url(rest) == [scheme |-> "https", netloc |-> "x", rest |-> rest]

\* str + "#text"
TextSuffix == <<"#", "t", "e", "x", "t">>

\* page URLs returned by the call_schedule producer
PageUrls == { Url(<<"/", "a">>) }

\* file and image URLs returned by the other producers; the two differ only in
\* the encoding of a space in the query
File1 == Url(<<"/", "f", "?", "x", "=", "a", "+", "b">>)
File2 == Url(<<"/", "f", "?", "x", "=", "a", "%", "2", "0", "b">>)

\* lists of image URLs returned by the producer of class_schedule
UrlLists == { <<>>, <<File1>>, <<File1, File2>> }

\* source_url values of direct calls of _save_artifact
SourceUrls == { Url(<<"/", "a">> \o TextSuffix) }

\* text_lines values returned by the call_schedule producer
TextLineLists == { << <<"M">>, <<"N">> >>, << <<"<!DOCTYPE html">>, <<"M">> >> }

\* raw_bytes values: a text, a text that begins with a doctype, an HTML page
\* behind leading white space
TextA == <<"M", "\n", "N">>
DoctypeText == <<"<!DOCTYPE html", "\n", "M">>
HtmlPage == <<" ", "<!DOCTYPE html", "M">>
Payloads == { TextA, DoctypeText }

\* mime_type values
MimeText == <<"text/plain">>
MimeHtml == <<" ", "Text/HTML", ";", "charset=utf-8">>
MimeTypes == { MimeText, MimeHtml }

\* HTTP responses (body, Content-Type header; None is a response without the
\* header): a text without a declared type, an HTML page declared as HTML
Responses == { [content |-> TextA, ctype |-> None], [content |-> HtmlPage, ctype |-> MimeHtml] }

\* run_id arguments of run_crawler; NoRunId is the default None (or any falsy value)
NoRunId == ""
RunIdArgs == { "R1", NoRunId }

\* run_id arguments of direct calls of _save_artifact
CallRunIds == { "R1", "R2" }

\* datetime.isoformat() keeps the whole reading of the clock
isoformat(t) == "iso" \o ToString(t)

\* strftime("%Y%m%dT%H%M%SZ") keeps the seconds; the clock counts half seconds
strftime(t) == "stamp" \o ToString(t \div 2)

(***************************************************************************)
(* State                                                                   *)
(***************************************************************************)
VARIABLES
  fs,        \* the files of the artifacts directory: path -> content
  dirs,      \* the directories that exist under the artifacts directory
  now,       \* last reading of the wall clock
  pc,        \* position of the process
  run_id,    \* run_crawler: run_id
  dry_run,   \* run_crawler: dry_run
  i,         \* run_crawler: index of the current task (0 outside a run)
  results,   \* run_crawler: results
  files,     \* run_crawler: the URLs the current task has still to fetch
  call,      \* _save_artifact: arguments and locals of the last call
  wr,        \* _safe_write_atomic: file being written and step reached
  ret,       \* outcome of the last call of _save_artifact
  report,    \* value returned by run_crawler
  log,       \* history: what the run did, as <<operation, task index>>
  saved,     \* history: manifest path -> the last call that persisted there
  nCalls, nFetch, nFail, nCrash,
  probe,     \* a helper function applied on its own: arguments and results
  writers    \* overlapping runs: the call of _save_artifact each run is in

vars == <<fs, dirs, now, pc, run_id, dry_run, i, results, files, call, wr, ret, report,
          log, saved, nCalls, nFetch, nFail, nCrash, probe, writers>>

\* the state outside a single process: left alone by its steps
aux == <<probe, writers>>

\* the counters of the bounds
counters == <<nCalls, nFetch, nFail, nCrash>>

Tasks ==
  << [name |-> "call_schedule", source_url |-> "URL_CALL_SCHEDULE"],
     [name |-> "class_schedule", source_url |-> "URL_CLASS_SCHEDULE"],
     [name |-> "session_schedule", source_url |-> "URL_SESSION_SCHEDULE"],
     [name |-> "rating_list", source_url |-> "URL_SCHOLARSHIP_LIST"],
     [name |-> "scholarship_list", source_url |-> "URL_SCHOLARSHIP_LIST"],
     [name |-> "timetable_calendar", source_url |-> "URL_TIMETABLE_CALENDAR"] >>

TaskNames == {Tasks[k].name : k \in 1..Len(Tasks)}

\* history kept with a call: the manifest file found when the call was made and
\* the arguments of the call that persisted it
NoArgs == [raw_bytes |-> <<>>, mime_type |-> <<>>, source_url |-> Url(<<>>), manifest |-> <<>>]
NotFound == [exists |-> FALSE, text |-> <<>>, persisted |-> FALSE, by |-> NoArgs]

NoCall == [raw_bytes |-> <<>>, mime_type |-> <<>>, source_url |-> Url(<<>>), run_id |-> "",
           dry_run |-> FALSE, manifest |-> <<>>, raw_path |-> <<>>, manifest_path |-> <<>>,
           found |-> NotFound]
NoWrite == [target |-> "none", step |-> "none"]
NoRet == [kind |-> "nocall", value |-> <<>>]
NoResults == [n \in {} |-> <<>>]
NoSaved == [p \in {} |-> <<>>]
NoProbe == [fn |-> "none"]
NoWriters == [w \in {} |-> <<>>]

\* variant: the data is written in place, at the final path
TmpPathInPlace(path) == path

\* Path.with_suffix(path.suffix + ".tmp")
TmpPath(path) == [path EXCEPT !.suffix = path.suffix \o ".tmp"]

(***************************************************************************)
(* _save_artifact: the computations                                        *)
(***************************************************************************)
\* variant: the signature is looked for without lstrip()
GuardRejectsUntrimmed(mime_type, raw_bytes) ==
  /\ MimeEssence(mime_type) \in HtmlFamily
  /\ LET head == LowerAll(Slice(raw_bytes, SniffLen))
     IN \/ (head # <<>> /\ head[1] \in {"<!doctype html", "<html"})
        \/ "<html" \in Range(head)

\* lines 96-97: the declared type is of the html family and the payload looks
\* like HTML
GuardRejects(mime_type, raw_bytes) ==
  MimeEssence(mime_type) \in HtmlFamily /\ _looks_like_html(raw_bytes)

\* lines 95-100: the declared type, or text/plain for a declared html type
EffectiveMime(mime_type) ==
  IF MimeEssence(mime_type) \in HtmlFamily THEN <<"text/plain">> ELSE mime_type

\* lines 102-103
DocKey(mime_type, source_url) ==
  ByValue(LAMBDA v : _build_doc_key(v[1], v[2]),
          <<_derive_type_and_ext(EffectiveMime(mime_type))[1], _normalize_url(source_url)>>)

\* line 105
RawPath(mime_type, source_url) ==
  [dir |-> "raw", stem |-> DocKey(mime_type, source_url),
   suffix |-> "." \o _derive_type_and_ext(EffectiveMime(mime_type))[2]]

\* line 106
ManifestPath(mime_type, source_url) ==
  [dir |-> "parsed", stem |-> DocKey(mime_type, source_url), suffix |-> ".json"]

\* lines 108-120
CandidateManifest(raw_bytes, mime_type, source_url, rid, t) ==
  [type |-> _derive_type_and_ext(EffectiveMime(mime_type))[1],
   version |-> 1,
   runId |-> rid,
   source |-> [url |-> source_url, sourceId |-> _normalize_url(source_url),
               mimeType |-> EffectiveMime(mime_type)],
   rawPath |-> <<"raw/", DocKey(mime_type, source_url), ".",
                 _derive_type_and_ext(EffectiveMime(mime_type))[2]>>,
   checksum |-> _sha256_bytes(raw_bytes),
   createdAt |-> isoformat(t)]

\* variant: the handler misses the AttributeError of .get on a list
ReadRaisesOnNonDict(text) == json_loads(text).kind = "list"

\* line 128: except Exception catches every error of the read and of the parse,
\* the AttributeError of .get on a value that is no dict included
ReadRaises(text) == json_loads(text).kind \notin {"dict", "list", "error"}

\* variant: the checksums are never found equal
DedupHitNever(text, manifest) == FALSE

\* variant: any stored manifest with a checksum counts as unchanged
DedupHitAnyChecksum(text, manifest) ==
  LET existing == json_loads(text)
  IN existing.kind = "dict" /\ "checksum" \in DOMAIN existing.val

\* lines 124-125: the stored manifest parses to a dict whose checksum is the
\* candidate's
DedupHit(text, manifest) ==
  LET existing == json_loads(text)
  IN /\ existing.kind = "dict"
     /\ "checksum" \in DOMAIN existing.val
     /\ existing.val["checksum"] = manifest["checksum"]

\* variant: the candidate is returned for an unchanged payload
DedupResultCandidate(existing, manifest) == manifest

\* line 127: return existing
DedupResult(existing, manifest) == existing

\* variant: dry_run is ignored
SkipWritesNever(dry) == FALSE

\* line 131: if dry_run
SkipWrites(dry) == dry

(***************************************************************************)
(* The artifacts directory when the model starts                           *)
(***************************************************************************)
\* manifest files that are no readable manifest: truncated JSON, JSON that is
\* not an object, an object without a checksum
UnreadableManifests ==
  { << <<"{">>, <<"type", "text">> >>,
    << <<"[">>, <<"]">> >>,
    << <<"{">>, <<"type", "text">>, <<"version", 1>>, <<"}">> >> }

EmptyStore == [fs |-> [p \in {} |-> <<>>], dirs |-> {}, saved |-> NoSaved]

\* a directory holding one manifest file that cannot be read as a manifest
UnreadableStores ==
  { [fs |-> [p \in {ManifestPath(MimeText, u)} |-> c], dirs |-> {"parsed"}, saved |-> NoSaved] :
      u \in SourceUrls, c \in UnreadableManifests }

\* the call by which an earlier run R0 saved the text of the call schedule
PriorCall == [raw_bytes |-> TextA, mime_type |-> MimeText, source_url |-> Url(<<"/", "a">> \o TextSuffix)]

PriorManifest ==
  CandidateManifest(PriorCall.raw_bytes, PriorCall.mime_type, PriorCall.source_url, "R0", 0)

\* the directory as that run left it
PriorStore ==
  LET rp == RawPath(PriorCall.mime_type, PriorCall.source_url)
      mp == ManifestPath(PriorCall.mime_type, PriorCall.source_url)
  IN [fs |-> [p \in {rp, mp} |-> IF p = rp THEN PriorCall.raw_bytes ELSE json_dumps(PriorManifest)],
      dirs |-> {"raw", "parsed"},
      saved |-> [p \in {mp} |-> [raw_bytes |-> PriorCall.raw_bytes, mime_type |-> PriorCall.mime_type,
                                 source_url |-> PriorCall.source_url, manifest |-> PriorManifest]]]

\* no call of run_crawler or of _save_artifact has been made
ProcessInit(stores) ==
  /\ \E st \in stores : fs = st.fs /\ dirs = st.dirs /\ saved = st.saved
  /\ now = 0
  /\ pc = "idle"
  /\ run_id = "" /\ dry_run = FALSE /\ i = 0
  /\ results = NoResults /\ files = <<>>
  /\ call = NoCall /\ wr = NoWrite /\ ret = NoRet
  /\ report = NoResults
  /\ log = <<>>
  /\ nCalls = 0 /\ nFetch = 0 /\ nFail = 0 /\ nCrash = 0

InitWith(stores) == ProcessInit(stores) /\ probe = NoProbe /\ writers = NoWriters

\* run_crawler is invoked on an empty directory or on the directory an earlier
\* run left
Init == InitWith({EmptyStore, PriorStore})

\* _save_artifact is first called on an empty directory or on a directory that
\* holds an unreadable manifest
StoreInit == InitWith({EmptyStore} \cup UnreadableStores)

(***************************************************************************)
(* run_crawler                                                             *)
(***************************************************************************)
\* the manifest file at a path and the call that persisted it, as a call finds
\* them
Found(path) ==
  [exists |-> path \in DOMAIN fs,
   text |-> IF path \in DOMAIN fs THEN fs[path] ELSE <<>>,
   persisted |-> path \in DOMAIN saved,
   by |-> IF path \in DOMAIN saved THEN saved[path] ELSE NoArgs]

\* the arguments of a call of _save_artifact
Args(raw_bytes, mime_type, source_url, rid, dry) ==
  [NoCall EXCEPT !.raw_bytes = raw_bytes, !.mime_type = mime_type, !.source_url = source_url,
                 !.run_id = rid, !.dry_run = dry,
                 !.found = Found(ManifestPath(mime_type, source_url))]

IsSuccess(entry) == "artifacts" \in DOMAIN entry
IsError(entry) == "error" \in DOMAIN entry

\* lines 256-261
ErrorRecord(k, err) ==
  [name |-> Tasks[k].name, runId |-> run_id, source |-> [url |-> Tasks[k].source_url],
   error |-> err]

\* results[name] = value
SetResult(res, name, value) ==
  [n \in DOMAIN res \cup {name} |-> IF n = name THEN value ELSE res[n]]

\* variant: the loop ends one task early
NextTaskEndsEarly ==
  /\ i' = i + 1
  /\ pc' = IF i >= Len(Tasks) - 1 THEN "finish" ELSE "task"
  /\ files' = <<>>
  /\ call' = NoCall
  /\ wr' = NoWrite

\* line 166: the loop goes on with the next task, or ends after the last one
NextTask ==
  /\ i' = i + 1
  /\ pc' = IF i = Len(Tasks) THEN "finish" ELSE "task"
  /\ files' = <<>>
  /\ call' = NoCall
  /\ wr' = NoWrite

\* variant: the exception of a task ends the loop over the tasks
RaiseAbort(op, err) ==
  IF i = 0
  THEN /\ ret' = [kind |-> "raised", value |-> <<>>]
       /\ pc' = "idle"
       /\ wr' = NoWrite
       /\ UNCHANGED <<results, files, i, call, log>>
  ELSE /\ results' = SetResult(results, Tasks[i].name, ErrorRecord(i, err))
       /\ ret' = NoRet
       /\ log' = Append(log, <<op, i>>)
       /\ i' = Len(Tasks) + 1
       /\ pc' = "finish"
       /\ files' = <<>>
       /\ call' = NoCall
       /\ wr' = NoWrite

\* variant: the handler logs the exception and keeps the entry of the task
RaiseKeepsEntry(op, err) ==
  IF i = 0
  THEN /\ ret' = [kind |-> "raised", value |-> <<>>]
       /\ pc' = "idle"
       /\ wr' = NoWrite
       /\ UNCHANGED <<results, files, i, call, log>>
  ELSE /\ results' = results
       /\ ret' = NoRet
       /\ log' = Append(log, <<op, i>>)
       /\ NextTask

\* variant: the handler records the error and runs the task again
RaiseRetry(op, err) ==
  IF i = 0
  THEN /\ ret' = [kind |-> "raised", value |-> <<>>]
       /\ pc' = "idle"
       /\ wr' = NoWrite
       /\ UNCHANGED <<results, files, i, call, log>>
  ELSE /\ results' = SetResult(results, Tasks[i].name, ErrorRecord(i, err))
       /\ ret' = NoRet
       /\ log' = Append(log, <<op, i>>)
       /\ i' = i
       /\ pc' = "task"
       /\ files' = <<>>
       /\ call' = NoCall
       /\ wr' = NoWrite

\* an exception: inside run_crawler the handler of the task (lines 254-261)
\* makes the entry of the task an error record and the loop goes on; a direct
\* caller of _save_artifact sees the exception
Raise(op, err) ==
  IF i = 0
  THEN /\ ret' = [kind |-> "raised", value |-> <<>>]
       /\ pc' = "idle"
       /\ wr' = NoWrite
       /\ UNCHANGED <<results, files, i, call, log>>
  ELSE /\ results' = SetResult(results, Tasks[i].name, ErrorRecord(i, err))
       /\ ret' = NoRet
       /\ log' = Append(log, <<op, i>>)
       /\ NextTask

\* run_crawler is invoked: lines 153-164
StartRun(rid, dry) ==
  /\ pc = "idle"
  /\ \E t \in now..MaxTime :
       /\ now' = t
       /\ run_id' = IF rid = NoRunId THEN strftime(t) ELSE rid
  /\ dry_run' = dry
  /\ results' = NoResults
  /\ i' = 1
  /\ pc' = "task"
  /\ UNCHANGED <<fs, dirs, saved, files, call, wr, ret, report, log, counters>>
  /\ UNCHANGED aux

\* what the producer of a task may return: the text and page of call_schedule,
\* up to two images for class_schedule, one file for scholarship_list, no file
\* for the other lists
ProducerData(name) ==
  IF name = "call_schedule"
  THEN {[shape |-> "text", text_lines |-> tl, page_url |-> u] : tl \in TextLineLists, u \in PageUrls}
  ELSE IF name = "scholarship_list"
  THEN {[shape |-> "files", urls |-> <<File1>>]}
  ELSE IF name = "class_schedule"
  THEN {[shape |-> "files", urls |-> us] : us \in UrlLists}
  ELSE {[shape |-> "files", urls |-> <<>>]}

\* line 169: data = func() raises (or returns a value that the branch of the
\* task cannot unpack)
ProducerRaises ==
  /\ pc = "task"
  /\ Raise("producer_raise", "producer")
  /\ UNCHANGED <<fs, dirs, now, run_id, dry_run, report, saved, counters>>
  /\ UNCHANGED aux

\* lines 169-184: data = func() returns; results[name] = {"data": data,
\* "artifacts": []}; the call_schedule branch calls _save_artifact on the joined
\* text, the other branches start their loop over the URLs
ProducerReturns(data) ==
  /\ pc = "task"
  /\ data \in ProducerData(Tasks[i].name)
  /\ results' = SetResult(results, Tasks[i].name, [data |-> data, artifacts |-> <<>>])
  /\ log' = Append(log, <<"producer_ok", i>>)
  /\ IF data.shape = "text"
     THEN /\ call' = Args(Join(data.text_lines, "\n"), <<"text/plain">>,
                          [data.page_url EXCEPT !.rest = @ \o TextSuffix], run_id, dry_run)
          /\ pc' = "save"
          /\ files' = <<>>
          /\ nFetch' = nFetch
     ELSE /\ nFetch + Len(data.urls) <= MaxFetch
          /\ nFetch' = nFetch + Len(data.urls)
          /\ files' = data.urls
          /\ pc' = "fetch"
          /\ call' = NoCall
  /\ UNCHANGED <<fs, dirs, now, run_id, dry_run, i, wr, ret, report, saved, nCalls, nFail, nCrash>>
  /\ UNCHANGED aux

\* requests.get(...) or resp.raise_for_status() raises
FetchFails ==
  /\ pc = "fetch" /\ files # <<>>
  /\ Raise("get_raise", "fetch")
  /\ UNCHANGED <<fs, dirs, now, run_id, dry_run, report, saved, counters>>
  /\ UNCHANGED aux

\* requests.get(...) returns a response: _save_artifact is called with its body
\* and resp.headers.get("Content-Type", "")
FetchOk(resp) ==
  /\ pc = "fetch" /\ files # <<>>
  /\ call' = Args(resp.content, IF resp.ctype = None THEN <<>> ELSE resp.ctype, Head(files),
                   run_id, dry_run)
  /\ files' = Tail(files)
  /\ pc' = "save"
  /\ ret' = NoRet
  /\ log' = Append(log, <<"get_ok", i>>)
  /\ UNCHANGED <<fs, dirs, now, run_id, dry_run, i, results, wr, report, saved, counters>>
  /\ UNCHANGED aux

\* the loop over the URLs of the task is exhausted
TaskDone ==
  /\ pc = "fetch" /\ files = <<>>
  /\ NextTask
  /\ ret' = NoRet
  /\ UNCHANGED <<fs, dirs, now, run_id, dry_run, results, report, log, saved, counters>>
  /\ UNCHANGED aux

\* lines 263-270: return results
Finish ==
  /\ pc = "finish"
  /\ report' = results
  /\ pc' = "done"
  /\ UNCHANGED <<fs, dirs, now, run_id, dry_run, i, results, files, call, wr, ret, log, saved,
                 counters>>
  /\ UNCHANGED aux

(***************************************************************************)
(* _save_artifact: the steps of a call                                     *)
(***************************************************************************)
\* return value; in run_crawler the caller appends a manifest to the artifacts
\* of its task (if manifest: results[name]["artifacts"].append(manifest)) and
\* goes on with its loop
Return(kind, value) ==
  /\ ret' = [kind |-> kind, value |-> value]
  /\ results' = IF kind = "manifest" /\ i # 0
                THEN [results EXCEPT ![Tasks[i].name].artifacts = Append(@, value)]
                ELSE results
  /\ pc' = IF i = 0 THEN "idle" ELSE "fetch"
  /\ wr' = NoWrite
  /\ UNCHANGED <<call, i, files, log>>

\* lines 94-120: the guard returns None, or the candidate manifest is built
SaveEnter ==
  /\ pc = "save"
  /\ IF GuardRejects(call.mime_type, call.raw_bytes)
     THEN /\ Return("none", <<>>)
          /\ now' = now
     ELSE /\ \E t \in now..MaxTime :
               /\ now' = t
               /\ call' = [call EXCEPT
                    !.manifest = CandidateManifest(call.raw_bytes, call.mime_type,
                                                   call.source_url, call.run_id, t),
                    !.raw_path = RawPath(call.mime_type, call.source_url),
                    !.manifest_path = ManifestPath(call.mime_type, call.source_url)]
          /\ pc' = "dedup"
          /\ UNCHANGED <<results, wr, ret, i, files, log>>
  /\ UNCHANGED <<fs, dirs, run_id, dry_run, report, saved, counters>>
  /\ UNCHANGED aux

\* lines 122-132: return the stored manifest when its checksum is the
\* candidate's; else return the candidate on a dry run, else start the writes
Dedup ==
  /\ pc = "dedup"
  /\ IF call.manifest_path \in DOMAIN fs /\ ReadRaises(fs[call.manifest_path])
     THEN Raise("read_raise", "manifest")
     ELSE IF call.manifest_path \in DOMAIN fs /\ DedupHit(fs[call.manifest_path], call.manifest)
     THEN Return("manifest", DedupResult(json_loads(fs[call.manifest_path]).val, call.manifest))
     ELSE IF SkipWrites(call.dry_run)
          THEN Return("manifest", call.manifest)
          ELSE /\ pc' = "write"
               /\ wr' = [target |-> "raw", step |-> "mkdir"]
               /\ UNCHANGED <<results, call, ret, i, files, log>>
  /\ UNCHANGED <<fs, dirs, now, run_id, dry_run, report, saved, counters>>
  /\ UNCHANGED aux

(***************************************************************************)
(* _safe_write_atomic, called for the raw file (line 134) and then for the *)
(* manifest (lines 135-138)                                                *)
(***************************************************************************)
WritePath == IF wr.target = "raw" THEN call.raw_path ELSE call.manifest_path
WriteData == IF wr.target = "raw" THEN call.raw_bytes ELSE json_dumps(call.manifest)

\* line 28: path.parent.mkdir(parents=True, exist_ok=True)
Mkdir ==
  /\ pc = "write" /\ wr.step = "mkdir"
  /\ dirs' = dirs \cup {WritePath.dir}
  /\ wr' = [wr EXCEPT !.step = "open"]
  /\ UNCHANGED <<fs, now, pc, run_id, dry_run, i, results, files, call, ret, report, log, saved,
                 counters>>
  /\ UNCHANGED aux

\* variant: the file at the final path is removed before the new one is written
TmpOpenUnlinksFinal ==
  /\ pc = "write" /\ wr.step = "open"
  /\ fs' = [p \in (DOMAIN fs \ {WritePath}) \cup {TmpPath(WritePath)} |->
              IF p = TmpPath(WritePath) THEN <<>> ELSE fs[p]]
  /\ wr' = [wr EXCEPT !.step = IF WriteData = <<>> THEN "replace" ELSE "write"]
  /\ UNCHANGED <<dirs, now, pc, run_id, dry_run, i, results, files, call, ret, report, log, saved,
                 counters>>
  /\ UNCHANGED aux

\* line 30, write_bytes opens the temporary file: it exists and is empty
TmpOpen ==
  /\ pc = "write" /\ wr.step = "open"
  /\ fs' = [p \in DOMAIN fs \cup {TmpPath(WritePath)} |->
              IF p = TmpPath(WritePath) THEN <<>> ELSE fs[p]]
  /\ wr' = [wr EXCEPT !.step = IF WriteData = <<>> THEN "replace" ELSE "write"]
  /\ UNCHANGED <<dirs, now, pc, run_id, dry_run, i, results, files, call, ret, report, log, saved,
                 counters>>
  /\ UNCHANGED aux

\* the lengths write_bytes may have put on disk: the data cut in WriteChunks
\* pieces
ChunkEnds(data) == {(k * Len(data)) \div WriteChunks : k \in 1..WriteChunks}

\* line 30, write_bytes writes: the temporary file grows to a longer prefix of
\* the data, up to all of it
TmpWrite(n) ==
  /\ pc = "write" /\ wr.step = "write"
  /\ n \in ChunkEnds(WriteData)
  /\ n > Len(fs[TmpPath(WritePath)])
  /\ fs' = [fs EXCEPT ![TmpPath(WritePath)] = SubSeq(WriteData, 1, n)]
  /\ wr' = [wr EXCEPT !.step = IF n = Len(WriteData) THEN "replace" ELSE "write"]
  /\ UNCHANGED <<dirs, now, pc, run_id, dry_run, i, results, files, call, ret, report, log, saved,
                 counters>>
  /\ UNCHANGED aux

\* line 31: tmp_path.replace(path) renames the temporary file onto the final
\* path in one step; after the manifest is in place _save_artifact returns the
\* candidate (line 142)
Replace ==
  /\ pc = "write" /\ wr.step = "replace"
  /\ fs' = [p \in (DOMAIN fs \ {TmpPath(WritePath)}) \cup {WritePath} |->
              IF p = WritePath THEN fs[TmpPath(WritePath)] ELSE fs[p]]
  /\ IF wr.target = "raw"
     THEN /\ wr' = [target |-> "manifest", step |-> "mkdir"]
          /\ UNCHANGED <<pc, results, call, ret, saved, i, files, log>>
     ELSE /\ Return("manifest", call.manifest)
          /\ saved' = [p \in DOMAIN saved \cup {call.manifest_path} |->
                         IF p = call.manifest_path
                         THEN [raw_bytes |-> call.raw_bytes, mime_type |-> call.mime_type,
                               source_url |-> call.source_url, manifest |-> call.manifest]
                         ELSE saved[p]]
  /\ UNCHANGED <<dirs, now, run_id, dry_run, report, counters>>
  /\ UNCHANGED aux

\* mkdir, write_bytes or replace raises OSError: the exception leaves
\* _save_artifact
WriteFails ==
  /\ pc = "write"
  /\ nFail < MaxFail
  /\ nFail' = nFail + 1
  /\ Raise("write_raise", "oserror")
  /\ UNCHANGED <<fs, dirs, now, run_id, dry_run, report, saved, nCalls, nFetch, nCrash>>
  /\ UNCHANGED aux

\* the process dies inside _safe_write_atomic; the files stay as they are
Crash ==
  /\ pc = "write"
  /\ nCrash < MaxCrash
  /\ nCrash' = nCrash + 1
  /\ pc' = "crashed"
  /\ call' = NoCall /\ wr' = NoWrite /\ ret' = NoRet
  /\ UNCHANGED <<fs, dirs, now, run_id, dry_run, i, results, files, report, log, saved,
                 nCalls, nFetch, nFail>>
  /\ UNCHANGED aux

\* _save_artifact is called directly
CallSave(raw_bytes, mime_type, source_url, rid, dry) ==
  /\ pc \in {"idle", "crashed"}
  /\ nCalls < MaxCalls
  /\ nCalls' = nCalls + 1
  /\ call' = Args(raw_bytes, mime_type, source_url, rid, dry)
  /\ pc' = "save"
  /\ ret' = NoRet
  /\ UNCHANGED <<fs, dirs, now, run_id, dry_run, i, results, files, wr, report, log, saved,
                 nFetch, nFail, nCrash>>
  /\ UNCHANGED aux

(***************************************************************************)
(* Specifications                                                          *)
(***************************************************************************)
\* one invocation of run_crawler
Next ==
  \/ \E rid \in RunIdArgs, dry \in BOOLEAN : StartRun(rid, dry)
  \/ ProducerRaises
  \/ \E k \in 1..Len(Tasks) : \E data \in ProducerData(Tasks[k].name) : ProducerReturns(data)
  \/ FetchFails
  \/ \E resp \in Responses : FetchOk(resp)
  \/ TaskDone
  \/ Finish
  \/ SaveEnter
  \/ Dedup
  \/ Mkdir
  \/ TmpOpen
  \/ \E n \in 1..(Len(ManifestKeys) + 2) : TmpWrite(n)
  \/ Replace
  \/ WriteFails

Spec == Init /\ [][Next]_vars

\* the artifact store under direct calls of _save_artifact, with crashes
StoreNext ==
  \/ \E raw_bytes \in Payloads, mime_type \in MimeTypes, source_url \in SourceUrls,
        rid \in CallRunIds, dry \in BOOLEAN : CallSave(raw_bytes, mime_type, source_url, rid, dry)
  \/ SaveEnter
  \/ Dedup
  \/ Mkdir
  \/ TmpOpen
  \/ \E n \in 1..(Len(ManifestKeys) + 2) : TmpWrite(n)
  \/ Replace
  \/ WriteFails
  \/ Crash

StoreSpec == StoreInit /\ [][StoreNext]_vars

\* the artifact store called on the directory an earlier run left: the calls
\* may save other bytes for its source, fail or be cut by a crash, and save
\* the first bytes again
ResumeInit == InitWith({PriorStore})

ResumeSpec == ResumeInit /\ [][StoreNext]_vars

(***************************************************************************)
(* Overlapping runs.  Two invocations of run_crawler on one artifacts      *)
(* directory are each in a call of _save_artifact for the same source;     *)
(* their steps interleave.  An open file is the file object of             *)
(* write_bytes: it stays the same file when the file is renamed, and is    *)
(* no longer visible once another file is renamed over it.  Positions in   *)
(* a file are counted in tokens.                                           *)
(***************************************************************************)
Runs == {"R1", "R2"}

\* the source both runs save, as text/plain
OverlapUrl == Url(<<"/", "a">> \o TextSuffix)

\* the payloads the runs may have fetched for it
TextB == <<"N", "\n", "M", "\n">>
OverlapPayloads == {TextA, TextB}

NoFile == [dir |-> "none", stem |-> <<>>, suffix |-> ""]

NotCalled == [pc |-> "start", raw_bytes |-> <<>>, manifest |-> <<>>, target |-> "none",
              at |-> NoFile, off |-> 0, ret |-> NoRet]

OverlapInit ==
  /\ ProcessInit({EmptyStore, PriorStore})
  /\ probe = NoProbe
  /\ writers = [w \in Runs |-> NotCalled]

\* the state of one process, left alone by the steps of the overlapping runs
process == <<now, pc, run_id, dry_run, i, results, files, call, wr, ret, report, log, saved,
             nCalls, nFetch, nFail, nCrash>>

OverlapPath(w) ==
  IF writers[w].target = "raw" THEN RawPath(MimeText, OverlapUrl)
  ELSE ManifestPath(MimeText, OverlapUrl)

OverlapData(w) ==
  IF writers[w].target = "raw" THEN writers[w].raw_bytes ELSE json_dumps(writers[w].manifest)

\* the bytes a file holds where nothing was written: a hole reads as zeros
Hole(path) == IF path.dir = "raw" THEN "NUL" ELSE <<"NUL">>

\* write(chunk) at position off of a file: the file is extended by a hole when
\* it is shorter than off, the chunk replaces what was at its place
WriteAt(content, off, chunk, hole) ==
  LET padded == content \o [j \in 1..(off - Len(content)) |-> hole]
  IN SubSeq(padded, 1, off) \o chunk \o SubSeq(padded, off + Len(chunk) + 1, Len(padded))

\* lines 94-120: the run calls _save_artifact (no dry run) on its payload
OverlapCall(w, raw_bytes) ==
  /\ writers[w].pc = "start"
  /\ writers' = [writers EXCEPT ![w] =
       [@ EXCEPT !.pc = "dedup", !.raw_bytes = raw_bytes,
                 !.manifest = CandidateManifest(raw_bytes, MimeText, OverlapUrl, w, now)]]
  /\ UNCHANGED <<fs, dirs, process, probe>>

\* lines 122-132: the stored manifest is returned when it is readable and has
\* the checksum of the candidate, else the raw file is written first
OverlapDedup(w) ==
  /\ writers[w].pc = "dedup"
  /\ LET mp == ManifestPath(MimeText, OverlapUrl)
     IN writers' = [writers EXCEPT ![w] =
          IF mp \in DOMAIN fs /\ DedupHit(fs[mp], writers[w].manifest)
          THEN [@ EXCEPT !.pc = "returned",
                         !.ret = [kind |-> "manifest",
                                  value |-> DedupResult(json_loads(fs[mp]).val, writers[w].manifest)]]
          ELSE [@ EXCEPT !.pc = "mkdir", !.target = "raw"]]
  /\ UNCHANGED <<fs, dirs, process, probe>>

\* line 28
OverlapMkdir(w) ==
  /\ writers[w].pc = "mkdir"
  /\ dirs' = dirs \cup {OverlapPath(w).dir}
  /\ writers' = [writers EXCEPT ![w].pc = "open"]
  /\ UNCHANGED <<fs, process, probe>>

\* line 30, write_bytes opens {path}.tmp for writing: the file is created, or
\* the file that is there, another writer's included, is truncated
OverlapOpen(w) ==
  /\ writers[w].pc = "open"
  /\ LET tmp == TmpPath(OverlapPath(w))
     IN /\ fs' = [p \in DOMAIN fs \cup {tmp} |-> IF p = tmp THEN <<>> ELSE fs[p]]
        /\ writers' = [writers EXCEPT ![w] =
             [@ EXCEPT !.at = tmp, !.off = 0,
                       !.pc = IF OverlapData(w) = <<>> THEN "replace" ELSE "write"]]
  /\ UNCHANGED <<dirs, process, probe>>

\* line 30, write_bytes writes the next piece of the data at the position of
\* its file object, into the file it opened wherever that file is now; after
\* the last piece the file is closed
OverlapWrite(w, n) ==
  /\ writers[w].pc = "write"
  /\ n \in ChunkEnds(OverlapData(w))
  /\ n > writers[w].off
  /\ LET at == writers[w].at
         chunk == SubSeq(OverlapData(w), writers[w].off + 1, n)
     IN fs' = IF at \in DOMAIN fs
              THEN [fs EXCEPT ![at] = WriteAt(fs[at], writers[w].off, chunk, Hole(at))]
              ELSE fs
  /\ writers' = [writers EXCEPT ![w] =
       [@ EXCEPT !.off = n,
                 !.at = IF n = Len(OverlapData(w)) THEN NoFile ELSE @,
                 !.pc = IF n = Len(OverlapData(w)) THEN "replace" ELSE "write"]]
  /\ UNCHANGED <<dirs, process, probe>>

\* line 31, tmp_path.replace(path): FileNotFoundError when {path}.tmp is not
\* there; else the file is renamed onto the final path, and with it the file
\* object of a writer that still has it open.  After the manifest is in place
\* the call returns the candidate (line 142)
OverlapReplace(w) ==
  /\ writers[w].pc = "replace"
  /\ LET path == OverlapPath(w)
         tmp == TmpPath(path)
     IN IF tmp \notin DOMAIN fs
        THEN /\ writers' = [writers EXCEPT ![w] =
                  [@ EXCEPT !.pc = "raised", !.ret = [kind |-> "raised", value |-> <<>>]]]
             /\ fs' = fs
        ELSE /\ fs' = [p \in (DOMAIN fs \ {tmp}) \cup {path} |-> IF p = path THEN fs[tmp] ELSE fs[p]]
             /\ writers' = [v \in Runs |->
                  LET moved == [writers[v] EXCEPT
                                  !.at = IF @ = tmp THEN path ELSE IF @ = path THEN NoFile ELSE @]
                  IN IF v # w THEN moved
                     ELSE IF writers[w].target = "raw"
                          THEN [moved EXCEPT !.target = "manifest", !.pc = "mkdir"]
                          ELSE [moved EXCEPT !.pc = "returned",
                                             !.ret = [kind |-> "manifest", value |-> writers[w].manifest]]]
  /\ UNCHANGED <<dirs, process, probe>>

OverlapNext ==
  \/ \E w \in Runs, raw_bytes \in OverlapPayloads : OverlapCall(w, raw_bytes)
  \/ \E w \in Runs : OverlapDedup(w)
  \/ \E w \in Runs : OverlapMkdir(w)
  \/ \E w \in Runs : OverlapOpen(w)
  \/ \E w \in Runs, n \in 1..(Len(ManifestKeys) + 2) : OverlapWrite(w, n)
  \/ \E w \in Runs : OverlapReplace(w)

OverlapSpec == OverlapInit /\ [][OverlapNext]_vars

(***************************************************************************)
(* The URL normalizer and the classifier applied on their own              *)
(***************************************************************************)
\* the ways a character of a query key or value can be written: itself, its
\* percent escape with upper or lower hex digits, '+' for a space.  The bare
\* '%' is a way of writing '%' where no two hex digits follow it
QueryEncodings(c) ==
  CASE c = " " -> {<<"+">>, <<"%", "2", "0">>, <<" ">>}
    [] c = "/" -> {<<"/">>, <<"%", "2", "F">>, <<"%", "2", "f">>}
    [] c = "x" -> {<<"x">>, <<"%", "7", "8">>}
    [] c = "%" -> {<<"%", "2", "5">>, <<"%">>}
    [] OTHER -> {<<c>>}

\* the ways a character of a path can be written: itself or its percent escape
PathEncodings(c) ==
  CASE c = " " -> {<<" ">>, <<"%", "2", "0">>}
    [] c = "b" -> {<<"b">>, <<"%", "6", "2">>}
    [] OTHER -> {<<c>>}

\* the ways of writing a string, given the ways of writing a character
RECURSIVE EncodingsOf(_, _)
EncodingsOf(Enc(_), str) ==
  IF str = <<>> THEN {<<>>}
  ELSE {e \o r : e \in Enc(Head(str)), r \in EncodingsOf(Enc, Tail(str))}

\* the query strings that carry a list of decoded <<key, value>> pairs
RECURSIVE EncodedQueries(_)
EncodedQueries(pairs) ==
  LET fields == {k \o <<"=">> \o v : k \in EncodingsOf(QueryEncodings, pairs[1][1]),
                                     v \in EncodingsOf(QueryEncodings, pairs[1][2])}
  IN IF Len(pairs) = 1 THEN fields
     ELSE {f \o <<"&">> \o r : f \in fields, r \in EncodedQueries(Tail(pairs))}

\* decoded queries: x = 'a b'; a = '/' followed by a = '%' (a repeated key)
QueryPairs ==
  { << <<<<"x">>, <<"a", " ", "b">>>> >>,
    << <<<<"a">>, <<"/">>>>, <<<<"a">>, <<"%">>>> >> }

\* decoded paths
DecodedPaths == { <<"/", "a", " ", "b">> }

\* declared types: a media type in either case, or none, with white space
\* around it and parameters behind it; None is a missing value
Essences ==
  { "text/html", "application/xhtml+xml", "text/plain", "application/pdf", "image/png",
    "image/jpeg", "image/webp", "application/zip", "" }

Spellings(essence) ==
  CASE essence = "text/html" -> {<<"text/html">>, <<"Text/HTML">>}
    [] essence = "application/xhtml+xml" -> {<<"application/xhtml+xml">>, <<"Application/XHTML+XML">>}
    [] essence = "text/plain" -> {<<"text/plain">>, <<"TEXT/PLAIN">>}
    [] essence = "application/pdf" -> {<<"application/pdf">>, <<"APPLICATION/PDF">>}
    [] essence = "image/png" -> {<<"image/png">>, <<"Image/PNG">>}
    [] essence = "image/jpeg" -> {<<"image/jpeg">>, <<"IMAGE/JPEG">>}
    [] essence = "image/webp" -> {<<"image/webp">>, <<"Image/WebP">>}
    [] essence = "application/zip" -> {<<"application/zip">>, <<"Application/ZIP">>}
    [] OTHER -> {<<>>}

MimeParameters == { <<>>, <<";">>, <<";", " ", "charset=utf-8">>, <<";", "text/plain">> }

MimeStrings(essence) ==
  {lead \o sp \o trail \o par :
     lead \in {<<>>, <<" ">>}, sp \in Spellings(essence), trail \in {<<>>, <<" ", "\n">>},
     par \in MimeParameters}
  \cup (IF essence = "" THEN {None} ELSE {})

\* the arguments a helper is applied to: two URLs that differ in the way
\* their query or their path is written, or a declared type
ProbeArgs(kind, url_a, url_b, mime_type, essence) ==
  [fn |-> "none", kind |-> kind, url_a |-> url_a, url_b |-> url_b, mime_type |-> mime_type,
   essence |-> essence, norm_a |-> Url(<<>>), norm_b |-> Url(<<>>), again_a |-> Url(<<>>),
   paths_a |-> <<>>, paths_b |-> <<>>, type_ext |-> <<>>]

ProbeInputs ==
  UNION { {ProbeArgs("query", Url(<<"/", "f", "?">> \o qa), Url(<<"/", "f", "?">> \o qb), m, "") :
             qa \in EncodedQueries(l), qb \in EncodedQueries(l), m \in {MimeText}} :
          l \in QueryPairs }
  \cup UNION { {ProbeArgs("path", Url(pa), Url(pb), m, "") :
                  pa \in EncodingsOf(PathEncodings, d), pb \in EncodingsOf(PathEncodings, d),
                  m \in {MimeText}} :
               d \in DecodedPaths }
  \cup UNION { {ProbeArgs("mime", Url(<<>>), Url(<<>>), m, e) : m \in MimeStrings(e)} :
               e \in Essences }

ProbeInit == ProcessInit({EmptyStore}) /\ probe \in ProbeInputs /\ writers = NoWriters

\* lines 94-106 of _save_artifact on each of the two URLs: the normalized URL,
\* the raw path and the manifest path; and _normalize_url on its own result
ApplyNormalize ==
  /\ probe.fn = "none" /\ probe.kind \in {"query", "path"}
  /\ probe' = [probe EXCEPT
       !.fn = "_normalize_url",
       !.norm_a = _normalize_url(probe.url_a),
       !.norm_b = _normalize_url(probe.url_b),
       !.again_a = _normalize_url(_normalize_url(probe.url_a)),
       !.paths_a = <<RawPath(probe.mime_type, probe.url_a), ManifestPath(probe.mime_type, probe.url_a)>>,
       !.paths_b = <<RawPath(probe.mime_type, probe.url_b), ManifestPath(probe.mime_type, probe.url_b)>>]
  /\ UNCHANGED <<fs, dirs, now, pc, run_id, dry_run, i, results, files, call, wr, ret, report,
                 log, saved, counters, writers>>

\* _derive_type_and_ext on a declared type
ApplyClassify ==
  /\ probe.fn = "none" /\ probe.kind = "mime"
  /\ probe' = [probe EXCEPT !.fn = "_derive_type_and_ext",
                            !.type_ext = _derive_type_and_ext(probe.mime_type)]
  /\ UNCHANGED <<fs, dirs, now, pc, run_id, dry_run, i, results, files, call, wr, ret, report,
                 log, saved, counters, writers>>

ProbeNext == ApplyNormalize \/ ApplyClassify

ProbeSpec == ProbeInit /\ [][ProbeNext]_vars

(***************************************************************************)
(* Properties of the artifact store                                        *)
(***************************************************************************)
\* the call in progress, or the call that has just returned, repeats the
\* arguments of the call that last persisted at its manifest path
RepeatsSaved ==
  /\ call.found.persisted
  /\ call.found.by.raw_bytes = call.raw_bytes
  /\ call.found.by.mime_type = call.mime_type
  /\ call.found.by.source_url = call.source_url

\* C1: after a call that persisted an artifact, a call with the same
\* raw_bytes, mime_type and source_url (any run_id, dry run or not) changes no
\* file and returns the manifest the first call stored, with its checksum and
\* its createdAt
C1_Idempotent ==
  [][ (pc \in {"save", "dedup"} /\ RepeatsSaved) =>
        /\ fs' = fs
        /\ dirs' = dirs
        /\ pc = "save" => pc' = "dedup"
        /\ pc = "dedup" =>
             /\ ret'.kind = "manifest"
             /\ ret'.value = call.found.by.manifest
             /\ ret'.value["checksum"] = call.found.by.manifest["checksum"]
             /\ ret'.value["createdAt"] = call.found.by.manifest["createdAt"]
             /\ pc' # "write" ]_vars

\* C1: a repeated call made under another run id has returned the stored
\* manifest, which carries the run id of the first call
C1_Witness ==
  /\ pc = "idle" /\ ret.kind = "manifest"
  /\ RepeatsSaved
  /\ ret.value = call.found.by.manifest
  /\ ret.value["runId"] # call.run_id

\* a call that is not a dry run has returned, or raised, where an artifact was
\* persisted for the same source_url and mime_type with other bytes
ChangedBytesCall ==
  /\ pc = "idle" /\ ret.kind # "nocall"
  /\ ~call.dry_run
  /\ call.found.persisted
  /\ call.found.by.source_url = call.source_url
  /\ call.found.by.mime_type = call.mime_type
  /\ call.found.by.raw_bytes # call.raw_bytes

\* the raw file and the manifest file of the last call hold its bytes and the
\* manifest it returned, at the paths of the artifact found
Overwritten ==
  /\ RawPath(call.mime_type, call.source_url) \in DOMAIN fs
  /\ fs[RawPath(call.mime_type, call.source_url)] = call.raw_bytes
  /\ ManifestPath(call.mime_type, call.source_url) \in DOMAIN fs
  /\ fs[ManifestPath(call.mime_type, call.source_url)] = json_dumps(ret.value)
  /\ ret.value["rawPath"] = call.found.by.manifest["rawPath"]

\* C2 as stated: such a call returns a manifest with a new checksum and a new
\* createdAt, and both files are overwritten at the same paths
C2_Original ==
  ChangedBytesCall =>
    /\ ret.kind = "manifest"
    /\ ret.value["checksum"] = _sha256_bytes(call.raw_bytes)
    /\ ret.value["checksum"] # call.found.by.manifest["checksum"]
    /\ ret.value["createdAt"] # call.found.by.manifest["createdAt"]
    /\ Overwritten

\* C2 as amended: when such a call returns a manifest (the guard did not
\* reject the bytes and no write raised), the manifest has the checksum of the
\* new bytes and the createdAt read from the clock by this call, and both
\* files hold the new bytes and the new manifest at the same paths
C2_ChangeDetected ==
  (ChangedBytesCall /\ ret.kind = "manifest") =>
    /\ ret.value["checksum"] = _sha256_bytes(call.raw_bytes)
    /\ ret.value["checksum"] # call.found.by.manifest["checksum"]
    /\ ret.value["createdAt"] = isoformat(now)
    /\ ret.value["runId"] = call.run_id
    /\ Overwritten

\* C2: changed bytes have been saved over an artifact
C2_Witness ==
  /\ ChangedBytesCall /\ ret.kind = "manifest"
  /\ fs[RawPath(call.mime_type, call.source_url)] # call.found.by.raw_bytes
  /\ json_loads(call.found.text).kind = "dict"

\* the suffixes of the temporary files of _safe_write_atomic
TmpSuffixes == {".json.tmp"} \cup {"." \o ext \o ".tmp" : ext \in {"html", "txt", "pdf", "png", "jpg", "webp"}}

\* the final paths: raw/{key}.{ext} and parsed/{key}.json
FinalPath(p) == p.suffix \notin TmpSuffixes

\* C3: at every step, crashes included, a file at a final path either stays
\* as it was (absent files stay absent unless written whole) or becomes the
\* complete data of the write in progress; no step deletes a final file
C3_CrashSafe ==
  [][ /\ \A p \in DOMAIN fs' :
           FinalPath(p) =>
             \/ p \in DOMAIN fs /\ fs'[p] = fs[p]
             \/ pc = "write" /\ p = WritePath /\ fs'[p] = WriteData
      /\ \A p \in DOMAIN fs : FinalPath(p) => p \in DOMAIN fs' ]_vars

\* C3: the process has crashed while it was overwriting an artifact: the
\* temporary file holds a proper prefix of the new bytes and the raw file its
\* complete previous content
C3_Witness ==
  /\ pc = "crashed"
  /\ \E p \in DOMAIN fs :
       /\ p.suffix = ".txt"
       /\ TmpPath(p) \in DOMAIN fs
       /\ fs[p] \in Payloads
       /\ \E d \in Payloads \ {fs[p]} :
            /\ Len(fs[TmpPath(p)]) \in 1..(Len(d) - 1)
            /\ fs[TmpPath(p)] = SubSeq(d, 1, Len(fs[TmpPath(p)]))

\* the file found at the manifest path of the call is no readable manifest
FoundUnreadable ==
  /\ call.found.exists
  /\ \/ json_loads(call.found.text).kind # "dict"
     \/ "checksum" \notin DOMAIN json_loads(call.found.text).val

\* C10: a call that finds an unreadable file at its manifest path raises no
\* error on it and goes on as without a manifest: on a dry run it returns the
\* candidate, else it starts the writes, and when they are done the raw file
\* holds the bytes, the manifest file the candidate, which is returned
C10_UnreadableAsAbsent ==
  [][ FoundUnreadable =>
        /\ pc = "dedup" =>
             /\ ret'.kind # "raised"
             /\ IF call.dry_run
                THEN ret'.kind = "manifest" /\ ret'.value = call.manifest /\ fs' = fs
                ELSE pc' = "write" /\ wr'.target = "raw" /\ wr'.step = "mkdir"
        /\ (pc = "write" /\ pc' = "idle" /\ ret'.kind # "raised") =>
             /\ ret' = [kind |-> "manifest", value |-> call.manifest]
             /\ fs'[call.raw_path] = call.raw_bytes
             /\ fs'[call.manifest_path] = json_dumps(call.manifest)
             /\ json_loads(fs'[call.manifest_path]).val = call.manifest ]_vars

\* C10: a call has replaced an unreadable manifest file by a fresh manifest
C10_Witness ==
  /\ pc = "idle" /\ ret.kind = "manifest"
  /\ FoundUnreadable
  /\ ~call.dry_run
  /\ fs[call.raw_path] = call.raw_bytes
  /\ fs[call.manifest_path] = json_dumps(ret.value)
  /\ fs[call.manifest_path] # call.found.text

(***************************************************************************)
(* Properties of run_crawler                                               *)
(***************************************************************************)
\* the operations of task k that raised during the run
RaisedIn(k, ops) == \E e \in Range(log) : e[2] = k /\ e[1] \in ops

\* the entry of task k in the report is the error record of the task
HasErrorRecord(k) ==
  /\ Tasks[k].name \in DOMAIN report
  /\ DOMAIN report[Tasks[k].name] = {"name", "runId", "source", "error"}
  /\ report[Tasks[k].name]["name"] = Tasks[k].name
  /\ report[Tasks[k].name]["runId"] = run_id
  /\ report[Tasks[k].name]["source"] = [url |-> Tasks[k].source_url]

\* the entry of task k in the report is a success entry
HasSuccessEntry(k) ==
  /\ Tasks[k].name \in DOMAIN report
  /\ DOMAIN report[Tasks[k].name] = {"data", "artifacts"}

\* C4 as stated: when a producer raised, its task has an error record and
\* every task whose producer and fetches succeeded has a success entry
C4_Original ==
  (pc = "done" /\ \E j \in 1..Len(Tasks) : RaisedIn(j, {"producer_raise"})) =>
    \A k \in 1..Len(Tasks) :
      /\ RaisedIn(k, {"producer_raise"}) => HasErrorRecord(k)
      /\ ~RaisedIn(k, {"producer_raise", "get_raise"}) => HasSuccessEntry(k)

\* C4 as amended: when a producer raised, its task has an error record and
\* every task whose producer, fetches and saves succeeded has a success
\* entry, before and after the failing task
C4_RunIsolation ==
  (pc = "done" /\ \E j \in 1..Len(Tasks) : RaisedIn(j, {"producer_raise"})) =>
    \A k \in 1..Len(Tasks) :
      /\ RaisedIn(k, {"producer_raise"}) =>
           HasErrorRecord(k) /\ report[Tasks[k].name]["error"] = "producer"
      /\ ~RaisedIn(k, {"producer_raise", "get_raise", "write_raise", "read_raise"}) =>
           HasSuccessEntry(k)

\* C4: the producer of the third task of six raised and the five other tasks
\* have success entries, the first with a saved artifact
C4_Witness ==
  /\ pc = "done"
  /\ RaisedIn(3, {"producer_raise"}) /\ HasErrorRecord(3)
  /\ \A k \in {1, 2, 4, 5, 6} : HasSuccessEntry(k)
  /\ report["call_schedule"].artifacts # <<>>
  /\ ~dry_run

\* C5 as stated: when the fetch of one file of a task fails while the task
\* has more files, the task goes on with its other files
C5_Original ==
  [][ (log' = Append(log, <<"get_raise", i>>) /\ Len(files) > 1) =>
        /\ i' = i
        /\ pc' = "fetch"
        /\ files' = Tail(files) ]_vars

\* the payload begins with <!DOCTYPE html
StartsWithDoctype(raw_bytes) == raw_bytes # <<>> /\ raw_bytes[1] = "<!DOCTYPE html"

\* C6 as stated: a call of the store on text/plain bytes that begin with
\* <!DOCTYPE html, such as the text of call_schedule, returns None and does
\* not store the bytes
C6_Original ==
  (/\ pc = "fetch" /\ ret.kind # "nocall"
   /\ ~call.dry_run
   /\ call.mime_type = <<"text/plain">>
   /\ StartsWithDoctype(call.raw_bytes)) =>
     /\ ret.kind = "none"
     /\ ~(/\ RawPath(call.mime_type, call.source_url) \in DOMAIN fs
          /\ fs[RawPath(call.mime_type, call.source_url)] = call.raw_bytes)

\* a step of a dry run of run_crawler, or of a dry-run call of _save_artifact
DryStep ==
  \/ dry_run /\ pc \notin {"idle", "done"}
  \/ call.dry_run /\ pc \in {"save", "dedup"}

\* C7: a step of a dry run changes no file and no directory and never starts
\* a write, and a dry-run call returns a manifest for every payload that the
\* HTML guard does not reject
C7_DryRunPure ==
  [][ DryStep =>
        /\ fs' = fs
        /\ dirs' = dirs
        /\ pc' # "write"
        /\ (pc = "save" /\ ~GuardRejects(call.mime_type, call.raw_bytes)) => pc' = "dedup"
        /\ pc = "dedup" =>
             /\ ret'.kind = "manifest"
             /\ ret'.value \in {call.manifest, call.found.by.manifest}
             /\ i # 0 => results'[Tasks[i].name].artifacts =
                           Append(results[Tasks[i].name].artifacts, ret'.value) ]_vars

\* C7: a dry run on an empty directory is over, its report lists a manifest,
\* and the directory is still empty
C7_Witness ==
  /\ pc = "done" /\ dry_run
  /\ \E n \in DOMAIN report : IsSuccess(report[n]) /\ report[n].artifacts # <<>>
  /\ fs = EmptyStore.fs
  /\ dirs = EmptyStore.dirs

\* the file at the manifest path of a manifest
StoredFor(m) == fs[ManifestPath(m["source"].mimeType, m["source"].url)]

\* C9 as stated: after a run that is no dry run, every manifest of its report
\* carries the run id of the run, and so does the manifest stored for it
C9_Original ==
  (pc = "done" /\ ~dry_run) =>
    \A n \in DOMAIN report :
      IsSuccess(report[n]) =>
        \A k \in 1..Len(report[n].artifacts) :
          /\ report[n].artifacts[k]["runId"] = run_id
          /\ json_loads(StoredFor(report[n].artifacts[k])).val["runId"] = run_id

\* C9 as amended: the runId of a manifest identifies the run that last wrote
\* it.  When a call that is no dry run returns a manifest, the manifest is the
\* one stored for the source and is listed in the report; it carries the run
\* id of the call if the call wrote it, and else (unchanged checksum) the run
\* id of the call that wrote it last
C9_RunIdOfWriter ==
  [][ (pc \in {"dedup", "write"} /\ ~call.dry_run /\ ret'.kind = "manifest") =>
        /\ json_loads(fs'[call.manifest_path]).val = ret'.value
        /\ i # 0 => results'[Tasks[i].name].artifacts =
                      Append(results[Tasks[i].name].artifacts, ret'.value)
        /\ IF pc = "write"
           THEN /\ ret'.value["runId"] = call.run_id
                /\ fs'[call.manifest_path] = json_dumps(call.manifest)
           ELSE /\ call.found.persisted
                /\ ret'.value["runId"] = call.found.by.manifest["runId"]
                /\ fs' = fs ]_vars

\* C9: a run has confirmed an unchanged payload saved by the earlier run R0:
\* the manifest it got and the stored one carry R0, not the id of the run
C9_Witness ==
  /\ pc = "fetch" /\ ret.kind = "manifest"
  /\ ~call.dry_run
  /\ call.run_id = run_id
  /\ ret.value["runId"] = "R0"
  /\ run_id # "R0"
  /\ json_loads(StoredFor(ret.value)).val["runId"] = "R0"

\* the process goes on as long as it has a step to take
LiveSpec == Init /\ [][Next]_vars /\ WF_vars(Next)

\* the report has one entry for each of the six tasks, a success entry or an
\* error record
ReportComplete ==
  /\ DOMAIN report = TaskNames
  /\ Len(Tasks) = 6 /\ Cardinality(TaskNames) = 6
  /\ \A n \in TaskNames : IsSuccess(report[n]) # IsError(report[n])

\* C8: every invocation of run_crawler ends, and returns a complete report
C8_RunCompletes == (pc = "task") ~> (pc = "done" /\ ReportComplete)

\* C8: a run in which all six tasks failed has returned its report
C8_Witness ==
  /\ pc = "done" /\ ReportComplete
  /\ \A n \in TaskNames : IsError(report[n])
  /\ \E k \in 1..Len(Tasks) : RaisedIn(k, {"write_raise"})
  /\ \E k \in 1..Len(Tasks) : RaisedIn(k, {"get_raise"})

\* C11: when mkdir, write_bytes or replace raises inside _save_artifact, the
\* exception is not handled in the store: the entry of the task becomes the
\* error record {name, runId, source: {url}, error} of the task, whatever
\* artifacts it listed, and the loop goes on with the next task (or ends after
\* the last); the report returned still holds that error record
C11_PersistenceError ==
  [][ /\ (pc = "write" /\ log' = Append(log, <<"write_raise", i>>)) =>
           /\ results'[Tasks[i].name] =
                [name |-> Tasks[i].name, runId |-> run_id,
                 source |-> [url |-> Tasks[i].source_url], error |-> "oserror"]
           /\ \A n \in DOMAIN results \ {Tasks[i].name} : results'[n] = results[n]
           /\ i' = i + 1
           /\ pc' = IF i < Len(Tasks) THEN "task" ELSE "finish"
           /\ fs' = fs
      /\ pc' = "done" =>
           \A k \in 1..Len(Tasks) :
             RaisedIn(k, {"write_raise"}) =>
               report'[Tasks[k].name] =
                 [name |-> Tasks[k].name, runId |-> run_id,
                  source |-> [url |-> Tasks[k].source_url], error |-> "oserror"] ]_vars

\* C11: the manifest write of the first task raised after its raw file was
\* written; the run went on and a later task saved an artifact
C11_Witness ==
  /\ pc = "done" /\ ~dry_run
  /\ RaisedIn(1, {"write_raise"}) /\ HasErrorRecord(1)
  /\ \E p \in DOMAIN fs : p.suffix = ".txt" /\ [p EXCEPT !.dir = "parsed", !.suffix = ".json"] \notin DOMAIN fs
  /\ HasSuccessEntry(5) /\ report["scholarship_list"].artifacts # <<>>

(***************************************************************************)
(* Properties of the URL normalizer and of the classifier                  *)
(***************************************************************************)
\* C12: two URLs that carry the same decoded query pairs in the same order,
\* written with different percent-encodings, have the same normalized URL,
\* hence the same key, the same raw path and the same manifest path; the
\* normalized URL is a fixed point of _normalize_url
C12_QueryEquivalence ==
  (probe.fn = "_normalize_url" /\ probe.kind = "query") =>
    /\ probe.norm_a = probe.norm_b
    /\ _build_doc_key("text", probe.norm_a) = _build_doc_key("text", probe.norm_b)
    /\ probe.paths_a = probe.paths_b
    /\ probe.paths_a[1].stem = _build_doc_key("text", probe.norm_a)
    /\ probe.again_a = probe.norm_a

\* C12: x=a+b and %78=a%20b have been normalized to one URL
C12_Witness ==
  /\ probe.fn = "_normalize_url" /\ probe.kind = "query"
  /\ probe.url_a = Url(<<"/", "f", "?", "x", "=", "a", "+", "b">>)
  /\ probe.url_b = Url(<<"/", "f", "?", "%", "7", "8", "=", "a", "%", "2", "0", "b">>)
  /\ probe.norm_a = probe.norm_b
  /\ probe.paths_a = probe.paths_b

\* C13 as stated: two URLs that differ in the way a character of the path is
\* written, literally or as its percent escape, have the same normalized URL,
\* and normalizing a normalized URL returns it unchanged
C13_Original ==
  (probe.fn = "_normalize_url" /\ probe.kind = "path") =>
    /\ probe.norm_a = probe.norm_b
    /\ probe.again_a = probe.norm_a

\* the table of the classifier
ClassifierTable(essence) ==
  CASE essence \in {"text/html", "application/xhtml+xml"} -> <<"html", "html">>
    [] essence = "text/plain" -> <<"text", "txt">>
    [] essence = "application/pdf" -> <<"pdf", "pdf">>
    [] essence = "image/png" -> <<"png", "png">>
    [] essence = "image/jpeg" -> <<"jpg", "jpg">>
    [] essence = "image/webp" -> <<"webp", "webp">>
    [] OTHER -> <<"html", "html">>

\* C15: whatever the parameters behind ';', the white space around the type
\* and the case of its letters, _derive_type_and_ext returns the pair of the
\* table for the seven known types and (html, html) for another type, an
\* empty string or a missing value
C15_ClassifierTable ==
  (probe.fn = "_derive_type_and_ext") => probe.type_ext = ClassifierTable(probe.essence)

\* C15: ' IMAGE/JPEG \n; charset=utf-8' has been classified as (jpg, jpg)
C15_Witness ==
  /\ probe.fn = "_derive_type_and_ext"
  /\ probe.mime_type = <<" ", "IMAGE/JPEG", " ", "\n", ";", " ", "charset=utf-8">>
  /\ probe.type_ext = <<"jpg", "jpg">>

(***************************************************************************)
(* Properties of the files                                                 *)
(***************************************************************************)
\* C14: no step removes a file at a final path: such a file is there in every
\* later state.  A file appears at a final path, or changes there, only by
\* the replace of the write in progress, which puts the complete data at that
\* same path; the only file a step removes is the temporary file that the
\* replace renames
C14_NoDeletion ==
  [][ /\ \A p \in DOMAIN fs : FinalPath(p) => p \in DOMAIN fs'
      /\ \A p \in DOMAIN fs' :
           (FinalPath(p) /\ (p \notin DOMAIN fs \/ fs'[p] # fs[p])) =>
             /\ pc = "write" /\ wr.step = "replace"
             /\ p = WritePath
             /\ p \in {RawPath(call.mime_type, call.source_url),
                        ManifestPath(call.mime_type, call.source_url)}
      /\ \A p \in DOMAIN fs \ DOMAIN fs' :
           /\ ~FinalPath(p)
           /\ p = TmpPath(WritePath)
           /\ WritePath \in DOMAIN fs' ]_vars

\* C14: a run has saved changed bytes for the source an earlier run R0 saved:
\* the raw file and the manifest file are at the paths where that run left
\* them, with the new content
C14_Witness ==
  /\ pc = "fetch" /\ ret.kind = "manifest"
  /\ call.found.exists /\ call.found.persisted
  /\ call.found.by.manifest["runId"] = "R0"
  /\ call.raw_bytes # call.found.by.raw_bytes
  /\ call.raw_path \in DOMAIN fs /\ fs[call.raw_path] = call.raw_bytes
  /\ call.manifest_path \in DOMAIN fs /\ fs[call.manifest_path] # call.found.text
  /\ DOMAIN fs = {call.raw_path, call.manifest_path}

(***************************************************************************)
(* Properties of the order of the steps of a run                           *)
(***************************************************************************)
ProducerOps == {"producer_ok", "producer_raise"}
RaiseOps == {"producer_raise", "get_raise", "write_raise", "read_raise"}

\* the history of a run is that of tasks run one after another: the tasks
\* appear in list order, each begins with the one call of its producer, and
\* an operation that raised is the last operation of its task
OneAfterAnother(h) ==
  /\ \A a \in 2..Len(h) : h[a - 1][2] <= h[a][2]
  /\ \A a \in 1..Len(h) : (h[a][1] \in ProducerOps) <=> (a = 1 \/ h[a - 1][2] < h[a][2])
  /\ \A a \in 1..(Len(h) - 1) : h[a][1] \in RaiseOps => h[a][2] < h[a + 1][2]

\* C16: every operation of a run belongs to the task the loop is at; the
\* loop moves to the next task of the list only when the task has fetched
\* and saved all its files or an operation of it has raised; the files of a
\* task are fetched one by one in the order the producer returned them, each
\* occurrence once; nothing that raised is attempted again; and when the run
\* returns, the producer of each of the six tasks was called exactly once
C16_Sequential ==
  [][ /\ log' # log => \E op \in ProducerOps \cup RaiseOps \cup {"get_ok"} : log' = Append(log, <<op, i>>)
      /\ OneAfterAnother(log')
      /\ i' \in {i, i + 1}
      /\ (i' = i + 1 /\ i # 0) =>
           \/ pc = "fetch" /\ files = <<>> /\ wr = NoWrite
           \/ \E op \in RaiseOps : log' = Append(log, <<op, i>>)
      /\ (pc = "fetch" /\ log' = Append(log, <<"get_ok", i>>)) =>
           /\ files # <<>>
           /\ call'.source_url = Head(files)
           /\ files' = Tail(files)
           /\ pc' = "save"
      /\ files' # files =>
           \/ pc = "task" /\ log' = Append(log, <<"producer_ok", i>>)
           \/ files' = Tail(files) /\ log' = Append(log, <<"get_ok", i>>)
           \/ files' = <<>> /\ \E op \in RaiseOps : log' = Append(log, <<op, i>>)
      /\ pc' = "done" =>
           \A k \in 1..Len(Tasks) :
             Cardinality({a \in 1..Len(log') : log'[a][2] = k /\ log'[a][1] \in ProducerOps}) = 1 ]_vars

\* C16: a run is over in which the first task failed in a write, the second
\* fetched and saved two files and the producer of the fifth raised
C16_Witness ==
  /\ pc = "done"
  /\ RaisedIn(1, {"write_raise"})
  /\ Cardinality({a \in 1..Len(log) : log[a] = <<"get_ok", 2>>}) = 2
  /\ Len(report["class_schedule"].artifacts) = 2
  /\ RaisedIn(5, {"producer_raise"})
  /\ OneAfterAnother(log)

(***************************************************************************)
(* Properties of the HTML guard                                            *)
(***************************************************************************)
\* number of bytes of the first k tokens of a payload
RECURSIVE BytesUpTo(_, _)
BytesUpTo(data, k) == IF k = 0 THEN 0 ELSE BytesUpTo(data, k - 1) + TokenLen(data[k])

\* the payload, without its leading white space, begins with <!doctype html
\* or holds <html, in any case of the letters, within its first 512 bytes
SignatureIn(raw_bytes) ==
  LET t == lstrip(raw_bytes)
  IN \E k \in 1..Len(t) :
       /\ BytesUpTo(t, k) <= SniffLen
       /\ \/ Lower(t[k]) = "<html"
          \/ k = 1 /\ Lower(t[k]) = "<!doctype html"

\* C17: a call whose declared type is text/html or application/xhtml+xml and
\* whose payload carries an HTML signature returns None in its first step and
\* changes no file and no directory, with or without a manifest at its path
\* and with either dry_run; in a run the entry of the task stays the success
\* entry it was, with the same artifacts, and the task goes on with the files
\* it has left
C17_GuardSkips ==
  [][ (/\ pc = "save"
       /\ MimeEssence(call.mime_type) \in {<<"text/html">>, <<"application/xhtml+xml">>}
       /\ SignatureIn(call.raw_bytes)) =>
        /\ ret' = [kind |-> "none", value |-> <<>>]
        /\ fs' = fs
        /\ dirs' = dirs
        /\ i # 0 =>
             /\ IsSuccess(results[Tasks[i].name])
             /\ results' = results
             /\ log' = log
             /\ i' = i
             /\ files' = files
             /\ pc' = "fetch" ]_vars

\* C17: the first of the two files of class_schedule was an HTML page declared
\* as text/html and was skipped, the second was fetched and saved: the entry
\* of the task lists the manifest of the second file alone
C17_Witness ==
  /\ pc = "done" /\ ~dry_run
  /\ Cardinality({a \in 1..Len(log) : log[a] = <<"get_ok", 2>>}) = 2
  /\ HasSuccessEntry(2)
  /\ Len(report["class_schedule"].artifacts) = 1
  /\ report["class_schedule"].artifacts[1]["source"].url = File2
  /\ report["class_schedule"].data.urls = <<File1, File2>>

(***************************************************************************)
(* Properties of the stored pair of files                                  *)
(***************************************************************************)
\* the path of the file a manifest names in rawPath
RawFileOf(m) == [dir |-> "raw", stem |-> m["rawPath"][2], suffix |-> "." \o m["rawPath"][4]]

\* C18 as stated: when a call that is no dry run has returned a manifest, the
\* raw file the manifest names exists and the SHA-256 of its bytes is the
\* checksum of the manifest
C18_Original ==
  (pc = "idle" /\ ret.kind = "manifest" /\ ~call.dry_run) =>
    /\ RawFileOf(ret.value) \in DOMAIN fs
    /\ _sha256_bytes(fs[RawFileOf(ret.value)]) = ret.value["checksum"]

(***************************************************************************)
(* Properties of the report                                                *)
(***************************************************************************)
\* the manifests written to parsed/ during the run
WrittenInRun == {saved[p].manifest : p \in {q \in DOMAIN saved : saved[q].manifest["runId"] = run_id}}

\* C19 as stated: when the run returns, every manifest written during the run
\* is listed in the artifacts of a success entry of the report
C19_Original ==
  pc = "done" =>
    \A m \in WrittenInRun :
      \E n \in DOMAIN report :
        /\ IsSuccess(report[n])
        /\ \E k \in 1..Len(report[n].artifacts) : report[n].artifacts[k] = m

(***************************************************************************)
(* Properties of overlapping runs                                          *)
(***************************************************************************)
\* what a complete file at a final path can hold: the payload or the manifest
\* of one of the calls, or what the earlier run left
CompleteContents ==
  OverlapPayloads \cup {PriorCall.raw_bytes, json_dumps(PriorManifest)}
  \cup {json_dumps(writers[w].manifest) : w \in {v \in Runs : writers[v].pc # "start"}}

\* C20 as stated: whatever the interleaving of two overlapping runs that save
\* the same source, every file at a final path is a complete file, never a
\* partly written or mixed one, and no call fails because its temporary file
\* is gone
C20_Original ==
  /\ \A p \in DOMAIN fs : FinalPath(p) => fs[p] \in CompleteContents
  /\ \A w \in Runs : writers[w].pc # "raised"

====
